---- MODULE Spec2Model ----
(***************************************************************************)
(* Model of the PXA27x Quick Capture Interface driver                      *)
(* (drivers/media/video/pxa_camera.c): the DMA descriptor chain builder,   *)
(* the hot-chaining linker and the interrupt driven capture state machine. *)
(*                                                                         *)
(* Two specifications share the definitions:                               *)
(*   SpecBuild  draws a memory map, a frame size and a channel count and   *)
(*              applies pxa_videobuf_prepare (the chain builder);          *)
(*   Spec       runs the capture machine (queue, frame interrupt, DMA      *)
(*              completion interrupts, the DMA engine itself) on buffers   *)
(*              built by the same pxa_videobuf_prepare.                    *)
(***************************************************************************)
EXTENDS Integers, Sequences, FiniteSets, TLC

(***************************************************************************)
(* Bounds of the model.                                                    *)
(***************************************************************************)
\* number of video buffers
NumBufs == 2
\* longest scatter/gather list drawn by SpecBuild
MaxSegs == 4
\* largest frame size (bytes) drawn by SpecBuild
MaxSize == 48
\* submissions (pxa_videobuf_queue calls) in one behaviour of Spec with one
\* channel in use
MaxSubmits == 3
\* submissions in one behaviour of Spec with three channels in use
MaxSubmits3 == 2
\* FIFO overruns raised by the hardware in one behaviour of Spec
MaxOverruns == 1
\* DMA bus errors raised by the hardware in one behaviour of Spec
MaxBusErrs == 1

(***************************************************************************)
(* Program constants.                                                      *)
(***************************************************************************)
\* PXA27x Developer's Manual 27.4.4.1: transfer lengths are rounded to this
XferAlign == 8
\* enum pxa_camera_active_dma
DMA_Y == 1
DMA_U == 2
DMA_V == 4
\* the video memory limit, in megabytes
vid_limit == 16
\* errno of a failed allocation
ENOMEM == 12

\* segment lengths (bytes) SpecBuild draws from; 12 is not a multiple of 8
SegLens == {8, 12, 16}
\* the concrete scenario of the specification: 2048 byte segments, 8192 bytes
ScenarioSegs == <<2048, 2048, 2048, 2048>>
ScenarioSize == 4 * 2048
\* a 48x32 YUV422P frame in one 4096 byte page
SmallFrameSegs == <<4096>>
SmallFrameSize == 48 * 32 * 2
\* the memory map every buffer of Spec uses, and the frame size with n
\* channels: each channel's chain is one data descriptor and the terminal one
CaptureSegs == <<16, 16>>
CaptureSize(n) == IF n = 3 THEN 32 ELSE 16

Bufs == 1..NumBufs
\* the scenario of three buffers
ScenarioBufs == 1..(NumBufs + 1)
Chans == 0..2

Min(a, b) == IF a < b THEN a ELSE b
Max(a, b) == IF a > b THEN a ELSE b
roundup(x, y) == ((x + (y - 1)) \div y) * y

(***************************************************************************)
(* Descriptor addresses.  A descriptor lives at index idx of the array of  *)
(* channel ch of buffer buf; DDADR_STOP is the stop marker and NULL the    *)
(* null pointer.                                                           *)
(***************************************************************************)
DDADR_STOP == [buf |-> 0, ch |-> 0, idx |-> -1]
NULL == [buf |-> 0, ch |-> 0, idx |-> -2]
DescAddr(b, c, i) == [buf |-> b, ch |-> c, idx |-> i]
\* pxa_dma->sg_dma: the bus address of the first descriptor of the array
sg_dma(b, c) == DescAddr(b, c, 0)

\* an empty struct pxa_cam_dma (sg_cpu == NULL)
\* freed: dma_free_coherent has released the array sg_cpu still points to
NoDma == [sg_cpu |-> <<>>, sglen |-> 0, allocated |-> FALSE, freed |-> FALSE]

VARIABLES
  sglist,        \* the scatter/gather segment lengths of a buffer's memory
  vbsize,        \* icd->width * icd->height * bytes per pixel
  icd,           \* icd->current_fmt, icd->width, icd->height and vq's field
  setup,         \* a call of pxa_videobuf_setup: position, *count and *size
  channels,      \* pcdev->channels
  bufs,          \* the struct pxa_buffer of every buffer, descriptors included
  capture,       \* pcdev->capture: the list of queued buffers
  active,        \* pcdev->active: a buffer, or 0 for NULL
  sg_tail,       \* pcdev->sg_tail[]: the last descriptor linked on each channel
  DDADR,         \* DMA engine: the descriptor address register of each channel
  dcsr_run,      \* DMA engine: DCSR_RUN of each channel
  dcsr_endintr,  \* DMA engine: DCSR_ENDINTR of each channel (interrupt pending)
  dcsr_buserr,   \* DMA engine: DCSR_BUSERR of each channel (interrupt pending)
  cicr0_enb,     \* capture interface: CICR0_ENB
  cicr0_eofm,    \* capture interface: CICR0_EOFM (end-of-frame interrupt masked)
  cisr_ifo,      \* capture interface: a CISR_IFO_x bit of a channel in use is set
  fifo_clean,    \* capture interface: the input FIFOs hold nothing since
                 \*          CIFR_RESET_F was last written
  lock,          \* pcdev->lock: "free", or the holder (interrupts disabled)
  cirq,          \* the position of a pxa_camera_irq call in progress
  q,             \* the position of a pxa_videobuf_queue call in progress
  oops,          \* the kernel has dereferenced an invalid pointer
  nsubmits,      \* history: the number of pxa_videobuf_queue calls so far
  subid,         \* history: the submission number of each buffer's last queueing
  doneLog,       \* history: the submission numbers marked Done, in order
  eot,           \* history: in order, the channels whose completion cleared a mask bit of
                 \*          the buffer now at the head of the queue
  doneEot,       \* history: the channels in eot when a buffer was last marked Done
  novr,          \* history: the number of FIFO overruns raised so far
  nbus,          \* history: the number of DMA bus errors raised so far
  armed_by,      \* history: the caller of pxa_camera_start_capture in the last
                 \*          handler step, "none" when it made no such call
  aborted,       \* history: the buffer whose frame the last overrun recovery
                 \*          dropped, until the channels are next started; else 0
  missed         \* history: the buffer the link-miss detector last re-armed
                 \*          capture for, until the channels are next started

buildVars == <<sglist, vbsize, channels, icd, setup>>
devVars == <<capture, active, sg_tail>>
hwVars == <<DDADR, dcsr_run, dcsr_endintr, dcsr_buserr, cicr0_enb, cicr0_eofm,
           cisr_ifo, fifo_clean>>
ctlVars == <<lock, cirq>>
histVars == <<nsubmits, subid, doneLog, eot, doneEot, novr, nbus, armed_by, aborted,
             missed>>
vars == <<buildVars, bufs, devVars, hwVars, ctlVars, q, oops, histVars>>

(***************************************************************************)
(* calculate_dma_sglen                                                     *)
(***************************************************************************)
\* scatterlist entries are numbered from 0: sg_next(sg) is sg + 1
sg_dma_len(sgl, sg) == sgl[sg + 1]

\* a transfer length rounded to 16 instead of 8
XferLenRound16(dma_len, offset, size) ==
  roundup(Min(dma_len - offset, size), 2 * XferAlign)

\* a transfer length that is not rounded at all
XferLenNoRound(dma_len, offset, size) == Min(dma_len - offset, size)

\* xfer_len = roundup(min(dma_len - offset, size), 8)
XferLen(dma_len, offset, size) == roundup(Min(dma_len - offset, size), XferAlign)

\* size = max(0, size - xfer_len)
SizeLeft(size, xfer_len) == Max(0, size - xfer_len)

RECURSIVE SglenLoop(_, _, _, _, _, _)
SglenLoop(sgl, sg, nents, i, offset, size) ==
  IF i >= nents
  THEN [i |-> i, size |-> size]
  ELSE LET dma_len == sg_dma_len(sgl, sg)
           xfer_len == XferLen(dma_len, offset, size)
           size2 == SizeLeft(size, xfer_len)
       IN IF size2 = 0
          THEN [i |-> i, size |-> 0]
          ELSE SglenLoop(sgl, sg + 1, nents, i + 1, 0, size2)

\* a count that is the loop index at the break, without the + 1
SglenLoopIndex(sgl, sg_first, nents, sg_first_ofs, size) ==
  SglenLoop(sgl, sg_first, nents, 0, sg_first_ofs, size).i

calculate_dma_sglen(sgl, sg_first, nents, sg_first_ofs, size) ==
  SglenLoop(sgl, sg_first, nents, 0, sg_first_ofs, size).i + 1

(***************************************************************************)
(* pxa_init_dma_channel                                                    *)
(***************************************************************************)
\* a data descriptor linked to itself instead of to its successor
DataDescSelfLink(b, channel, i, sg, offset, xfer_len) ==
  [dsadr |-> channel,
   dtadr |-> [sg |-> sg, ofs |-> offset],
   len |-> xfer_len,
   endirq |-> FALSE,
   written |-> TRUE,
   ddadr |-> DescAddr(b, channel, i)]

\* the descriptor the loop writes at index i
DataDesc(b, channel, i, sg, offset, xfer_len) ==
  [dsadr |-> channel,
   dtadr |-> [sg |-> sg, ofs |-> offset],
   len |-> xfer_len,
   endirq |-> FALSE,
   written |-> TRUE,
   ddadr |-> DescAddr(b, channel, i + 1)]

\* an entry of the array the loop has not written
BlankDesc ==
  [dsadr |-> 0, dtadr |-> [sg |-> 0, ofs |-> 0], len |-> 0,
   endirq |-> FALSE, written |-> FALSE, ddadr |-> NULL]

\* sg_cpu[sglen]: the terminal descriptor (no data, end interrupt, stop)
StopDesc(d) ==
  [d EXCEPT !.ddadr = DDADR_STOP, !.endirq = TRUE, !.len = 0, !.written = TRUE]

\* the for_each_sg loop of pxa_init_dma_channel; cpu is the array so far.
\* Yields the array and the values of sg, dma_len and xfer_len after the loop.
RECURSIVE InitLoop(_, _, _, _, _, _, _, _, _, _, _)
InitLoop(sgl, b, channel, sg, sglen, i, offset, size, cpu, dl, xl) ==
  IF i >= sglen
  THEN [cpu |-> cpu, sg |-> sg, dma_len |-> dl, xfer_len |-> xl]
  ELSE LET dma_len == sg_dma_len(sgl, sg)
           xfer_len == XferLen(dma_len, offset, size)
           size2 == SizeLeft(size, xfer_len)
           cpu2 == [cpu EXCEPT ![i] = DataDesc(b, channel, i, sg, offset, xfer_len)]
       IN IF size2 = 0
          THEN [cpu |-> cpu2, sg |-> sg, dma_len |-> dma_len, xfer_len |-> xfer_len]
          ELSE InitLoop(sgl, b, channel, sg + 1, sglen, i + 1, 0, size2, cpu2,
                        dma_len, xfer_len)

\* a cursor that moves to the next segment only when the length exceeds it
NextCursorStrict(sg, dma_len, xfer_len) ==
  IF xfer_len > dma_len
  THEN [sg |-> sg + 1, ofs |-> xfer_len - dma_len]
  ELSE [sg |-> sg, ofs |-> xfer_len]

\* the cursor handed to the next channel (source lines 398-404)
NextCursor(sg, dma_len, xfer_len) ==
  IF xfer_len >= dma_len
  THEN [sg |-> sg + 1, ofs |-> xfer_len - dma_len]
  ELSE [sg |-> sg, ofs |-> xfer_len]

\* the end of pxa_init_dma_channel: the terminal descriptor is written and
\* the cursor updated; loop is what the for_each_sg loop has left
InitChannelEnd(sglen, loop) ==
  [dma |-> [sg_cpu |-> [loop.cpu EXCEPT ![sglen] = StopDesc(@)],
            sglen |-> sglen,
            allocated |-> TRUE,
            freed |-> FALSE],
   sg_first |-> NextCursor(loop.sg, loop.dma_len, loop.xfer_len).sg,
   sg_first_ofs |-> NextCursor(loop.sg, loop.dma_len, loop.xfer_len).ofs]

\* pxa_init_dma_channel once sglen is known: allocation of sglen + 1
\* descriptors, the loop, then the end
InitChannelAlloc(sgl, b, channel, size, sg_first, sg_first_ofs, sglen) ==
  InitChannelEnd(sglen,
                 InitLoop(sgl, b, channel, sg_first, sglen, 0, sg_first_ofs, size,
                          [i \in 0..sglen |-> BlankDesc], 0, 0))

pxa_init_dma_channel(sgl, b, channel, size, sg_first, sg_first_ofs) ==
  InitChannelAlloc(sgl, b, channel, size, sg_first, sg_first_ofs,
                   calculate_dma_sglen(sgl, sg_first, Len(sgl), sg_first_ofs, size))

(***************************************************************************)
(* pxa_videobuf_set_actdma, pxa_videobuf_prepare                           *)
(***************************************************************************)
\* a mask that holds DMA_Y only, whatever the number of channels
SetActdmaYOnly(nch) == {DMA_Y}

pxa_videobuf_set_actdma(nch) ==
  IF nch = 3 THEN {DMA_Y, DMA_U, DMA_V} ELSE {DMA_Y}

\* the plane sizes pxa_videobuf_prepare derives from vb->size
PlaneSize(nch, size, c) ==
  IF nch = 3
  THEN (IF c = 0 THEN size \div 2 ELSE size \div 4)
  ELSE (IF c = 0 THEN size ELSE 0)

\* the three calls of pxa_init_dma_channel with the cursor threaded through
\* the call for one of the chroma channels: skipped when its size is 0,
\* prev being what the call before it returned
InitChroma(sgl, b, channel, size_c, prev) ==
  IF size_c # 0
  THEN pxa_init_dma_channel(sgl, b, channel, size_c, prev.sg_first,
                            prev.sg_first_ofs)
  ELSE [dma |-> NoDma, sg_first |-> prev.sg_first,
        sg_first_ofs |-> prev.sg_first_ofs]

\* what the three calls have built and the cursor each of them returned
BuiltOf(nch, size, y, u, v) ==
  [built |-> {0} \cup (IF PlaneSize(nch, size, 1) # 0 THEN {1} ELSE {})
                 \cup (IF PlaneSize(nch, size, 2) # 0 THEN {2} ELSE {}),
   dmas |-> [c \in Chans |-> IF c = 0 THEN y.dma ELSE IF c = 1 THEN u.dma ELSE v.dma],
   cursor |-> [c \in Chans |->
                 IF c = 0 THEN [sg |-> y.sg_first, ofs |-> y.sg_first_ofs]
                 ELSE IF c = 1 THEN [sg |-> u.sg_first, ofs |-> u.sg_first_ofs]
                 ELSE [sg |-> v.sg_first, ofs |-> v.sg_first_ofs]]]

BuildV(sgl, b, nch, size, y, u) ==
  BuiltOf(nch, size, y, u, InitChroma(sgl, b, 2, PlaneSize(nch, size, 2), u))

BuildU(sgl, b, nch, size, y) ==
  BuildV(sgl, b, nch, size, y, InitChroma(sgl, b, 1, PlaneSize(nch, size, 1), y))

BuildChains(sgl, b, nch, size) ==
  BuildU(sgl, b, nch, size,
         pxa_init_dma_channel(sgl, b, 0, PlaneSize(nch, size, 0), 0, 0))

\* no pxa_videobuf_queue call in progress
QIdle == [buf |-> 0, i |-> 0, k |-> 0]

\* no pxa_camera_irq call in progress; otherwise pc is the position in the
\* handler and buf its local variable buf
CIdle == [pc |-> 0, buf |-> 0]

\* no call of pxa_videobuf_setup in progress
SetupIdle == [pc |-> "idle", req |-> 0, count |-> 0, size |-> 0]

\* the format and geometry recorded in a buffer that was never prepared
NoGeom == [depth |-> 0, width |-> 0, height |-> 0, field |-> "NONE"]

\* a geometry of size bytes per frame: the 48x32 frame of 16 bit pixels, or
\* one line of 8 bit pixels
GeomOf(size) ==
  IF size = SmallFrameSize
  THEN [depth |-> 16, width |-> 48, height |-> 32, field |-> "NONE"]
  ELSE [depth |-> 8, width |-> size, height |-> 1, field |-> "NONE"]

\* vb->size = vb->width * vb->height * ((buf->fmt->depth + 7) >> 3)
FrameBytes(g) == g.width * g.height * ((g.depth + 7) \div 8)

\* a test that compares the frame sizes instead of the recorded fields
NeedsInitBySize(cur, buf) ==
  buf.size # FrameBytes(cur) \/ buf.state = "NEEDS_INIT"

\* pxa_videobuf_prepare decides to rebuild the chains of buf: the recorded
\* format, width, height or field differs from the current one, or the state
\* is VIDEOBUF_NEEDS_INIT
NeedsInit(cur, buf) == buf.geom # cur \/ buf.state = "NEEDS_INIT"

\* a struct pxa_buffer after allocation: no chains, VIDEOBUF_NEEDS_INIT
NewBuffer ==
  [state |-> "NEEDS_INIT",
   geom |-> NoGeom,
   size |-> 0,
   dmas |-> [c \in Chans |-> NoDma],
   cursor |-> [c \in Chans |-> [sg |-> 0, ofs |-> 0]],
   active_dma |-> {},
   inwork |-> FALSE,
   qbuf |-> FALSE,
   ret |-> 0,
   refreed |-> {}]

\* the VIDEOBUF_NEEDS_INIT branch of pxa_videobuf_prepare, built being what
\* the calls of pxa_init_dma_channel have made
PrepareInit(nch, cur, buf, built) ==
  [buf EXCEPT !.geom = cur, !.size = FrameBytes(cur),
              !.dmas = [c \in Chans |-> IF c \in built.built
                                         THEN built.dmas[c] ELSE buf.dmas[c]],
              !.cursor = built.cursor,
              !.state = "PREPARED", !.inwork = FALSE,
              !.active_dma = pxa_videobuf_set_actdma(nch)]

\* pxa_videobuf_prepare on buffer record buf (identity b)
pxa_videobuf_prepare(sgl, b, nch, cur, buf) ==
  IF NeedsInit(cur, buf)
  THEN PrepareInit(nch, cur, buf, BuildChains(sgl, b, nch, FrameBytes(cur)))
  ELSE [buf EXCEPT !.size = FrameBytes(cur), !.inwork = FALSE,
                   !.active_dma = pxa_videobuf_set_actdma(nch)]

\* videobuf_qbuf calls buf_prepare on a buffer that is neither queued nor done
Prepare(b) ==
  /\ bufs[b].state \in {"NEEDS_INIT", "IDLE"}
  /\ ~bufs[b].qbuf
  /\ ~oops
  /\ q = QIdle
  /\ cirq = CIdle
  /\ bufs' = [bufs EXCEPT ![b] =
               [pxa_videobuf_prepare(sglist, b, channels, icd, bufs[b])
                  EXCEPT !.qbuf = TRUE, !.ret = 0]]
  /\ UNCHANGED <<buildVars, devVars, hwVars, ctlVars, q, oops, histVars>>

\* a free_buffer that leaves the descriptor arrays with the buffer
FreeBufferKeepsArrays(buf) == [buf EXCEPT !.state = "NEEDS_INIT"]

\* free_buffer: every array sg_cpu points to is handed to dma_free_coherent
\* and sg_cpu set to NULL; refreed records the arrays that had been released
\* before and are released here a second time
free_buffer(buf) ==
  [buf EXCEPT !.dmas = [c \in Chans |-> NoDma], !.state = "NEEDS_INIT",
              !.refreed = @ \cup {c \in Chans : buf.dmas[c].allocated
                                                /\ buf.dmas[c].freed}]

\* the channels pxa_videobuf_prepare allocates a descriptor array for
AllocChans(nch, size) == {c \in Chans : PlaneSize(nch, size, c) # 0}

\* the arrays when dma_alloc_coherent fails for channel failc: the channels
\* before it are built, pxa_init_dma_channel has released the previous array
\* of failc and left sg_cpu NULL, the channels after it are not reached
DmasAtFailure(buf, built, failc) ==
  [c \in Chans |-> IF c = failc THEN NoDma
                   ELSE IF c < failc /\ c \in built.built THEN built.dmas[c]
                   ELSE buf.dmas[c]]

\* the labels fail_v and fail_u: dma_free_coherent on the arrays of the
\* channels built before failc; their sg_cpu keeps its value
FailLabels(dmas, failc) ==
  [c \in Chans |-> IF c < failc /\ dmas[c].allocated
                   THEN [dmas[c] EXCEPT !.freed = TRUE] ELSE dmas[c]]

\* pxa_videobuf_prepare when dma_alloc_coherent fails for channel failc:
\* the labels, then free_buffer, then out; the value returned is -ENOMEM
PrepareNoMemBuf(cur, buf, built, failc) ==
  [free_buffer([buf EXCEPT !.geom = cur, !.size = FrameBytes(cur),
                           !.dmas = FailLabels(DmasAtFailure(buf, built, failc),
                                               failc)])
     EXCEPT !.inwork = FALSE, !.ret = -ENOMEM]

\* videobuf_qbuf calls buf_prepare and an allocation of it fails: the error
\* is returned and the buffer is not handed to buf_queue
PrepareNoMem(b, failc) ==
  /\ bufs[b].state \in {"NEEDS_INIT", "IDLE"}
  /\ ~bufs[b].qbuf
  /\ ~oops
  /\ q = QIdle
  /\ cirq = CIdle
  /\ NeedsInit(icd, bufs[b])
  /\ failc \in AllocChans(channels, vbsize)
  /\ bufs' = [bufs EXCEPT ![b] =
               PrepareNoMemBuf(icd, bufs[b],
                               BuildChains(sglist, b, channels, vbsize), failc)]
  /\ UNCHANGED <<buildVars, devVars, hwVars, ctlVars, q, oops, histVars>>

\* pxa_videobuf_release of a buffer that is neither queued nor active
Release(b) ==
  /\ bufs[b].state \in {"PREPARED", "IDLE", "DONE"}
  /\ ~oops
  /\ bufs' = [bufs EXCEPT ![b] = [free_buffer(bufs[b]) EXCEPT !.qbuf = FALSE]]
  /\ UNCHANGED <<buildVars, devVars, hwVars, ctlVars, q, oops, histVars>>

\* the device after pxa_camera_probe and pxa_camera_activate: nothing queued,
\* channels stopped, interface disabled, every interrupt source masked
InitDevice ==
  /\ capture = <<>>
  /\ active = 0
  /\ sg_tail = [c \in Chans |-> NULL]
  /\ DDADR = [c \in Chans |-> DDADR_STOP]
  /\ dcsr_run = [c \in Chans |-> FALSE]
  /\ dcsr_endintr = [c \in Chans |-> FALSE]
  /\ dcsr_buserr = [c \in Chans |-> FALSE]
  /\ cicr0_enb = FALSE
  /\ cicr0_eofm = TRUE
  /\ cisr_ifo = FALSE
  /\ fifo_clean = FALSE
  /\ lock = "free"
  /\ cirq = CIdle
  /\ q = QIdle
  /\ oops = FALSE
  /\ nsubmits = 0
  /\ subid = [b \in Bufs |-> 0]
  /\ doneLog = <<>>
  /\ eot = <<>>
  /\ doneEot = {}
  /\ novr = 0
  /\ nbus = 0
  /\ armed_by = "none"
  /\ aborted = 0
  /\ missed = 0

(***************************************************************************)
(* SpecBuild: the chain builder on drawn inputs.                           *)
(***************************************************************************)
RECURSIVE SumSeq(_)
SumSeq(s) == IF s = <<>> THEN 0 ELSE Head(s) + SumSeq(Tail(s))

SegLists == UNION {[1..n -> SegLens] : n \in 1..MaxSegs}

\* the bytes the planes need, each rounded to the transfer alignment
PlanesNeed(nch, size) ==
  roundup(PlaneSize(nch, size, 0), XferAlign)
  + roundup(PlaneSize(nch, size, 1), XferAlign)
  + roundup(PlaneSize(nch, size, 2), XferAlign)

\* the buffer memory can hold the frame
MemoryHolds(sgl, nch, size) == PlanesNeed(nch, size) <= SumSeq(sgl)

\* the builder works on one buffer at a time: the drawn inputs are applied to
\* one buffer, the scenario to its three
InitBuild ==
  /\ channels \in {1, 3}
  /\ \/ /\ sglist \in SegLists
        /\ vbsize \in 1..MaxSize
     \/ /\ sglist = ScenarioSegs
        /\ vbsize = ScenarioSize
     \/ /\ sglist = SmallFrameSegs
        /\ vbsize = SmallFrameSize
  /\ MemoryHolds(sglist, channels, vbsize)
  /\ icd = GeomOf(vbsize)
  /\ setup = SetupIdle
  /\ bufs = [b \in (IF sglist = ScenarioSegs THEN ScenarioBufs ELSE {1}) |-> NewBuffer]
  /\ InitDevice

NextBuild ==
  \/ \E b \in DOMAIN bufs : Prepare(b)
  \/ \E b \in DOMAIN bufs : Release(b)
  \/ \E b \in DOMAIN bufs : \E failc \in Chans : PrepareNoMem(b, failc)

SpecBuild == InitBuild /\ [][NextBuild]_vars

(***************************************************************************)
(* The capture machine.  The driver's functions are operators on a record  *)
(* d of the device state; each action commits the record a handler yields. *)
(***************************************************************************)
Dev ==
  [bufs |-> bufs, capture |-> capture, active |-> active, sg_tail |-> sg_tail,
   DDADR |-> DDADR, run |-> dcsr_run, endintr |-> dcsr_endintr,
   buserr |-> dcsr_buserr,
   enb |-> cicr0_enb, eofm |-> cicr0_eofm, ifo |-> cisr_ifo,
   fifo_clean |-> fifo_clean, oops |-> oops,
   subid |-> subid, doneLog |-> doneLog, eot |-> eot, doneEot |-> doneEot,
   armed_by |-> "none", aborted |-> aborted,
   missed |-> missed]

Commit(d) ==
  /\ bufs' = d.bufs
  /\ capture' = d.capture
  /\ active' = d.active
  /\ sg_tail' = d.sg_tail
  /\ DDADR' = d.DDADR
  /\ dcsr_run' = d.run
  /\ dcsr_endintr' = d.endintr
  /\ dcsr_buserr' = d.buserr
  /\ cicr0_enb' = d.enb
  /\ cicr0_eofm' = d.eofm
  /\ cisr_ifo' = d.ifo
  /\ fifo_clean' = d.fifo_clean
  /\ oops' = d.oops
  /\ subid' = d.subid
  /\ doneLog' = d.doneLog
  /\ eot' = d.eot
  /\ doneEot' = d.doneEot
  /\ armed_by' = d.armed_by
  /\ aborted' = d.aborted
  /\ missed' = d.missed

\* the descriptor at address a, and a write of its link field
Mem(bs, a) == bs[a.buf].dmas[a.ch].sg_cpu[a.idx]
SetLink(bs, a, v) == [bs EXCEPT ![a.buf].dmas[a.ch].sg_cpu[a.idx].ddadr = v]

\* pxa_camera_dma_irq_y, _u, _v: the mask bit of a channel
ActDma(c) == IF c = 0 THEN DMA_Y ELSE IF c = 1 THEN DMA_U ELSE DMA_V

pxa_dma_start_channels(d, nch) ==
  [d EXCEPT !.DDADR = [c \in Chans |-> IF c < nch THEN sg_dma(d.active, c) ELSE @[c]],
            !.run = [c \in Chans |-> IF c < nch THEN TRUE ELSE @[c]]]

\* a stop sequence that leaves the channels running
StopChannelsNone(d, nch) == d

pxa_dma_stop_channels(d, nch) ==
  [d EXCEPT !.run = [c \in Chans |-> IF c < nch THEN FALSE ELSE @[c]]]

\* an arming that leaves the end-of-frame interrupt masked
StartCaptureKeepsMask(d) == [d EXCEPT !.fifo_clean = TRUE, !.enb = TRUE]

\* an arming that also sets DCSR_RUN of every channel
StartCaptureRuns(d) ==
  [d EXCEPT !.fifo_clean = TRUE, !.enb = TRUE, !.eofm = FALSE,
            !.run = [c \in Chans |-> TRUE]]

pxa_camera_start_capture(d) ==
  [d EXCEPT !.fifo_clean = TRUE, !.enb = TRUE, !.eofm = FALSE]

\* a call of pxa_camera_start_capture by who
Arm(d, who) == [pxa_camera_start_capture(d) EXCEPT !.armed_by = who]

pxa_camera_stop_capture(d, nch) ==
  [pxa_dma_stop_channels(d, nch) EXCEPT !.enb = FALSE, !.active = 0]

\* list_del_init(&vb->queue)
ListDel(list, b) == SelectSeq(list, LAMBDA x : x # b)

\* a wake-up that keeps the channels' tails when the queue becomes empty
WakeupKeepsTails(d, nch) ==
  LET b == d.active
      d1 == [d EXCEPT !.capture = ListDel(@, b),
                      !.bufs[b].state = "DONE",
                      !.doneLog = Append(@, d.subid[b]),
                      !.doneEot = {d.eot[k] : k \in DOMAIN d.eot},
                      !.eot = <<>>]
  IN IF d1.capture = <<>>
     THEN pxa_camera_stop_capture(d1, nch)
     ELSE [d1 EXCEPT !.active = Head(d1.capture)]

\* a wake-up that leaves pcdev->active on the buffer it has just removed
WakeupStaleActive(d, nch) ==
  [d EXCEPT !.capture = ListDel(@, d.active),
            !.bufs[d.active].state = "DONE",
            !.doneLog = Append(@, d.subid[d.active]),
            !.doneEot = {d.eot[k] : k \in DOMAIN d.eot},
            !.eot = <<>>]

pxa_camera_wakeup(d, nch) ==
  LET b == d.active
      d1 == [d EXCEPT !.capture = ListDel(@, b),
                      !.bufs[b].state = "DONE",
                      !.doneLog = Append(@, d.subid[b]),
                      !.doneEot = {d.eot[k] : k \in DOMAIN d.eot},
                      !.eot = <<>>]
  IN IF d1.capture = <<>>
     THEN [pxa_camera_stop_capture(d1, nch) EXCEPT
             !.sg_tail = [c \in Chans |-> IF c < nch THEN NULL ELSE @[c]]]
     ELSE [d1 EXCEPT !.active = Head(d1.capture)]

\* a detector that re-arms capture whenever a buffer remains
CheckLinkMissAlways(d, nch) ==
  IF d.active # 0 THEN Arm([d EXCEPT !.missed = d.active], "linkmiss") ELSE d

\* a detector that never re-arms capture
CheckLinkMissNever(d, nch) == d

pxa_camera_check_link_miss(d, nch) ==
  LET is_dma_stopped == \A c \in Chans : c < nch => d.DDADR[c] = DDADR_STOP
  IN IF d.active # 0 /\ is_dma_stopped
     THEN Arm([d EXCEPT !.missed = d.active], "linkmiss")
     ELSE d

\* a test that takes every queued head for one with a successor
OverrunAlwaysRestarts(list) == TRUE

\* !list_is_last(pcdev->capture.next, &pcdev->capture)
HeadIsNotLast(list) == Len(list) > 1

\* a status test that never sees a bus error
BusErrorNever(d, channel) == FALSE

\* status & DCSR_BUSERR
BusErrorReported(d, channel) == d.buserr[channel]

\* pxa_camera_dma_irq on a channel whose DCSR reports ENDINTR or BUSERR; the
\* status is written back, which acknowledges both
pxa_camera_dma_irq(d, nch, channel) ==
  LET d1 == [d EXCEPT !.endintr[channel] = FALSE, !.buserr[channel] = FALSE]
      b == d1.active
  IN IF BusErrorReported(d, channel) \/ ~d.endintr[channel] \/ b = 0 THEN d1
     ELSE IF d1.ifo /\ HeadIsNotLast(d1.capture)
     THEN Arm([pxa_camera_stop_capture(d1, nch) EXCEPT !.aborted = b], "overrun")
     ELSE LET d2 == [d1 EXCEPT !.bufs[b].active_dma = @ \ {ActDma(channel)},
                               !.eot = IF ActDma(channel) \in d1.bufs[b].active_dma
                                       THEN Append(@, channel) ELSE @]
          IN IF d2.bufs[b].active_dma = {}
             THEN pxa_camera_check_link_miss(pxa_camera_wakeup(d2, nch), nch)
             ELSE d2

\* pxa_camera_irq with CISR_EOF set in the status, first part: the status
\* is written back and pcdev->active becomes the first entry of the list;
\* list_first_entry of an empty list yields an invalid pointer
pxa_camera_irq_first(d) ==
  IF d.capture = <<>>
  THEN [d EXCEPT !.ifo = FALSE, !.oops = TRUE]
  ELSE [d EXCEPT !.ifo = FALSE, !.active = Head(d.capture)]

\* pxa_camera_irq, second part: the mask of the local buf is set and the
\* channels are started from pcdev->active, which is read again
pxa_camera_irq_start(d, nch, buf) ==
  IF d.active = 0
  THEN [d EXCEPT !.bufs[buf].active_dma = pxa_videobuf_set_actdma(nch),
                 !.oops = TRUE]
  ELSE pxa_dma_start_channels(
         [d EXCEPT !.bufs[buf].active_dma = pxa_videobuf_set_actdma(nch),
                   !.eot = IF buf = d.active THEN <<>> ELSE @,
                   !.aborted = 0,
                   !.missed = 0],
         nch)

\* pxa_camera_irq, last part: the end-of-frame interrupt is masked
pxa_camera_irq_mask(d) == [d EXCEPT !.eofm = TRUE]

\* the two descriptor writes in the other order: link first, stop marker last
AddTailOrderLinkFirst == <<"link", "stop">>

\* the order of the two descriptor writes of pxa_dma_add_tail_buf per channel
AddTailOrder == <<"stop", "link">>

\* buf_last_desc of channel i of buffer b
LastDesc(bs, b, i) == DescAddr(b, i, bs[b].dmas[i].sglen)

\* descriptor writes that never link the old tail to the new buffer
AddTailWriteNoLink(d, b, i, op) ==
  IF op = "stop"
  THEN [d EXCEPT !.bufs = SetLink(@, DescAddr(b, i, d.bufs[b].dmas[i].sglen),
                                  DDADR_STOP)]
  ELSE d

\* descriptor writes that put the link into the first descriptor of the chain
\* the old tail belongs to
AddTailWriteLinksChainHead(d, b, i, op) ==
  IF op = "stop"
  THEN [d EXCEPT !.bufs = SetLink(@, LastDesc(d.bufs, b, i), DDADR_STOP)]
  ELSE IF d.sg_tail[i] # NULL
       THEN [d EXCEPT !.bufs = SetLink(@, sg_dma(d.sg_tail[i].buf, i), sg_dma(b, i))]
       ELSE d

\* descriptor writes that leave the terminal link of the appended buffer as
\* it was
AddTailWriteNoStop(d, b, i, op) ==
  IF op = "stop"
  THEN d
  ELSE IF d.sg_tail[i] # NULL
       THEN [d EXCEPT !.bufs = SetLink(@, d.sg_tail[i], sg_dma(b, i))]
       ELSE d

\* one descriptor write of pxa_dma_add_tail_buf for channel i of buffer b
AddTailWrite(d, b, i, op) ==
  IF op = "stop"
  THEN [d EXCEPT !.bufs = SetLink(@, LastDesc(d.bufs, b, i), DDADR_STOP)]
  ELSE IF d.sg_tail[i] # NULL
       THEN [d EXCEPT !.bufs = SetLink(@, d.sg_tail[i], sg_dma(b, i))]
       ELSE d

\* a buffer put at the head of the list instead of its tail
ListAddHead(list, b) == <<b>> \o list

\* list_add_tail(&vb->queue, &pcdev->capture)
ListAddTail(list, b) == Append(list, b)

\* videobuf_dqbuf hands a Done buffer back to the user
Dqbuf(b) ==
  /\ ~oops
  /\ q = QIdle
  /\ cirq = CIdle
  /\ bufs[b].state = "DONE"
  /\ bufs' = [bufs EXCEPT ![b].state = "IDLE"]
  /\ UNCHANGED <<buildVars, devVars, hwVars, ctlVars, q, oops, histVars>>

\* pxa_videobuf_queue up to the call of pxa_dma_add_tail_buf
QueueBegin(b) ==
  /\ ~oops
  /\ q = QIdle
  /\ cirq = CIdle
  /\ lock = "free"
  /\ lock' = "queue"
  /\ bufs[b].qbuf
  /\ nsubmits < (IF channels = 3 THEN MaxSubmits3 ELSE MaxSubmits)
  /\ capture' = ListAddTail(capture, b)
  /\ bufs' = [bufs EXCEPT ![b].state = "ACTIVE", ![b].qbuf = FALSE]
  /\ q' = [buf |-> b, i |-> 0, k |-> 1]
  /\ nsubmits' = nsubmits + 1
  /\ subid' = [subid EXCEPT ![b] = nsubmits + 1]
  /\ UNCHANGED <<buildVars, active, sg_tail, hwVars, cirq, oops, doneLog, eot,
                 doneEot, novr, nbus, armed_by, aborted, missed>>

\* a pxa_videobuf_queue that arms capture whether or not a buffer is active
QueueStepAlwaysArms ==
  /\ ~oops
  /\ q # QIdle
  /\ lock = "queue"
  /\ \E d1 \in {AddTailWrite(Dev, q.buf, q.i, AddTailOrder[q.k])} :
       IF q.k = 1
       THEN Commit(d1) /\ q' = [q EXCEPT !.k = 2]
       ELSE \E d2 \in {[d1 EXCEPT !.sg_tail[q.i] = LastDesc(d1.bufs, q.buf, q.i)]} :
              IF q.i + 1 < channels
              THEN Commit(d2) /\ q' = [q EXCEPT !.i = q.i + 1, !.k = 1]
              ELSE /\ Commit(Arm(d2, "queue"))
                   /\ q' = QIdle
  /\ lock' = IF q.k = 2 /\ q.i + 1 >= channels THEN "free" ELSE lock
  /\ UNCHANGED <<buildVars, cirq, nsubmits, novr, nbus>>

\* the next descriptor write of pxa_dma_add_tail_buf; after the second write
\* of a channel the tail is updated, and after the last channel
\* pxa_videobuf_queue arms capture when no buffer is active
QueueStep ==
  /\ ~oops
  /\ q # QIdle
  /\ lock = "queue"
  /\ \E d1 \in {AddTailWrite(Dev, q.buf, q.i, AddTailOrder[q.k])} :
       IF q.k = 1
       THEN Commit(d1) /\ q' = [q EXCEPT !.k = 2]
       ELSE \E d2 \in {[d1 EXCEPT !.sg_tail[q.i] = LastDesc(d1.bufs, q.buf, q.i)]} :
              IF q.i + 1 < channels
              THEN Commit(d2) /\ q' = [q EXCEPT !.i = q.i + 1, !.k = 1]
              ELSE /\ Commit(IF d2.active = 0 THEN Arm(d2, "queue") ELSE d2)
                   /\ q' = QIdle
  /\ lock' = IF q.k = 2 /\ q.i + 1 >= channels THEN "free" ELSE lock
  /\ UNCHANGED <<buildVars, cirq, nsubmits, novr, nbus>>

\* the frame-boundary interrupt: end of frame, unmasked, interface enabled.
\* pxa_camera_irq takes no lock and runs with interrupts enabled, so that a
\* DMA completion interrupt can be served between its parts
CameraIrqFirst ==
  /\ ~oops
  /\ lock = "free"
  /\ cirq = CIdle
  /\ cicr0_enb /\ ~cicr0_eofm
  /\ \E d \in {pxa_camera_irq_first(Dev)} :
       /\ Commit(d)
       /\ cirq' = [pc |-> 1, buf |-> d.active]
  /\ UNCHANGED <<buildVars, lock, q, nsubmits, novr, nbus>>

CameraIrqStart ==
  /\ ~oops
  /\ cirq.pc = 1
  /\ \E d \in {pxa_camera_irq_start(Dev, channels, cirq.buf)} : Commit(d)
  /\ cirq' = [cirq EXCEPT !.pc = 2]
  /\ UNCHANGED <<buildVars, lock, q, nsubmits, novr, nbus>>

CameraIrqMask ==
  /\ ~oops
  /\ cirq.pc = 2
  /\ \E d \in {pxa_camera_irq_mask(Dev)} : Commit(d)
  /\ cirq' = CIdle
  /\ UNCHANGED <<buildVars, lock, q, nsubmits, novr, nbus>>

\* a completion interrupt whose handler arms capture when it finds no active
\* buffer
DmaIrqArmsWithoutActive(c) ==
  /\ ~oops
  /\ lock = "free"
  /\ c < channels
  /\ dcsr_endintr[c] \/ dcsr_buserr[c]
  /\ \E d \in {IF active = 0
                THEN Arm(pxa_camera_dma_irq(Dev, channels, c), "linkmiss")
                ELSE pxa_camera_dma_irq(Dev, channels, c)} : Commit(d)
  /\ UNCHANGED <<buildVars, ctlVars, q, nsubmits, novr, nbus>>

\* the DMA completion interrupt of channel c
DmaIrq(c) ==
  /\ ~oops
  /\ lock = "free"
  /\ c < channels
  /\ dcsr_endintr[c] \/ dcsr_buserr[c]
  /\ \E d \in {pxa_camera_dma_irq(Dev, channels, c)} : Commit(d)
  /\ UNCHANGED <<buildVars, ctlVars, q, nsubmits, novr, nbus>>

\* the DMA engine: channel c loads the descriptor DDADR points at, transfers
\* it, raises ENDINTR when the descriptor asks for it, and stops when the
\* link it loaded is the stop marker
HwStep(c) ==
  /\ ~oops
  /\ c < channels
  /\ dcsr_run[c]
  /\ DDADR[c] # DDADR_STOP
  /\ LET desc == Mem(bufs, DDADR[c])
     IN /\ DDADR' = [DDADR EXCEPT ![c] = desc.ddadr]
        /\ dcsr_endintr' = [dcsr_endintr EXCEPT ![c] = @ \/ desc.endirq]
        /\ dcsr_run' = [dcsr_run EXCEPT ![c] = desc.ddadr # DDADR_STOP]
        /\ fifo_clean' = (fifo_clean /\ desc.len = 0)
  /\ UNCHANGED <<buildVars, bufs, devVars, dcsr_buserr, cicr0_enb, cicr0_eofm,
                 cisr_ifo, ctlVars, q, oops, histVars>>

\* the capture interface: an input FIFO of a channel in use overruns
HwOverrun ==
  /\ ~oops
  /\ cicr0_enb
  /\ ~cisr_ifo
  /\ novr < MaxOverruns
  /\ cisr_ifo' = TRUE
  /\ fifo_clean' = FALSE
  /\ novr' = novr + 1
  /\ UNCHANGED <<buildVars, bufs, devVars, DDADR, dcsr_run, dcsr_endintr,
                 dcsr_buserr, cicr0_enb, cicr0_eofm, ctlVars, q, oops, nsubmits,
                 subid, doneLog, eot, doneEot, nbus, armed_by, aborted, missed>>

\* the DMA engine: a running channel hits a bus error on a descriptor fetch or
\* a transfer; the channel stops and reports DCSR_BUSERR
HwBusError(c) ==
  /\ ~oops
  /\ c < channels
  /\ dcsr_run[c]
  /\ DDADR[c] # DDADR_STOP
  /\ nbus < MaxBusErrs
  /\ dcsr_buserr' = [dcsr_buserr EXCEPT ![c] = TRUE]
  /\ dcsr_run' = [dcsr_run EXCEPT ![c] = FALSE]
  /\ nbus' = nbus + 1
  /\ UNCHANGED <<buildVars, bufs, devVars, DDADR, dcsr_endintr, cicr0_enb,
                 cicr0_eofm, cisr_ifo, fifo_clean, ctlVars, q, oops, nsubmits,
                 subid, doneLog, eot, doneEot, novr, armed_by, aborted, missed>>

Init ==
  /\ sglist = CaptureSegs
  /\ channels \in {1, 3}
  /\ vbsize = CaptureSize(channels)
  /\ icd = GeomOf(vbsize)
  /\ setup = SetupIdle
  /\ bufs = [b \in Bufs |-> NewBuffer]
  /\ InitDevice

Next ==
  \/ \E b \in Bufs : Prepare(b)
  \/ \E b \in Bufs : Dqbuf(b)
  \/ \E b \in Bufs : QueueBegin(b)
  \/ QueueStep
  \/ CameraIrqFirst
  \/ CameraIrqStart
  \/ CameraIrqMask
  \/ \E c \in Chans : DmaIrq(c)
  \/ \E c \in Chans : HwStep(c)
  \/ \E c \in Chans : HwBusError(c)
  \/ HwOverrun

Spec == Init /\ [][Next]_vars

(***************************************************************************)
(* Properties of the chain builder (checked under SpecBuild).              *)
(***************************************************************************)
\* the channels of buffer b that hold a chain built by pxa_videobuf_prepare
BuiltChans(b) ==
  {c \in Chans : bufs[b].state # "NEEDS_INIT" /\ bufs[b].dmas[c].allocated}

\* the bytes channel c of buffer b has to transfer
Target(b, c) == PlaneSize(channels, bufs[b].size, c)

\* the sum of the transfer lengths of the first n descriptors of an array
RECURSIVE SumLens(_, _)
SumLens(cpu, n) == IF n = 0 THEN 0 ELSE cpu[n - 1].len + SumLens(cpu, n - 1)

\* the last data descriptor of a chain
LastData(dma) == dma.sg_cpu[dma.sglen - 1]

\* the bytes of its segment that lie at and after a descriptor's target
SegRemaining(d) == sglist[d.dtadr.sg + 1] - d.dtadr.ofs

\* the position of a target address in the buffer, segments laid end to end
RECURSIVE SegStart(_, _)
SegStart(sgl, sg) == IF sg = 0 THEN 0 ELSE sgl[sg] + SegStart(sgl, sg - 1)
LinPos(a) == SegStart(sglist, a.sg) + a.ofs

\* the buffer positions the data descriptors of a chain write
PlaneBytes(dma) ==
  UNION {LinPos(dma.sg_cpu[i].dtadr)..(LinPos(dma.sg_cpu[i].dtadr) + dma.sg_cpu[i].len - 1)
         : i \in 0..(dma.sglen - 1)}

\* C1: the transfer lengths of the data descriptors of every built chain sum
\* to at least the channel's target byte count and at most the target plus 7.
C1_SumWithinTarget ==
  \A b \in DOMAIN bufs : \A c \in BuiltChans(b) :
    LET total == SumLens(bufs[b].dmas[c].sg_cpu, bufs[b].dmas[c].sglen)
    IN /\ Target(b, c) <= total
       /\ total <= Target(b, c) + 7

\* a chain of two descriptors that starts inside a segment and was rounded up
C1_Witness ==
  \E b \in DOMAIN bufs : \E c \in BuiltChans(b) :
    /\ bufs[b].dmas[c].sglen >= 2
    /\ bufs[b].dmas[c].sg_cpu[0].dtadr.ofs > 0
    /\ SumLens(bufs[b].dmas[c].sg_cpu, bufs[b].dmas[c].sglen) > Target(b, c)

\* C2: whenever the last data descriptor of a channel has a length equal to
\* the bytes that remained in its segment from its start offset, the cursor
\* handed to the next channel is the following segment at offset 0, and the
\* next channel's first descriptor targets that position.
C2_BoundaryCoincidence ==
  \A b \in DOMAIN bufs : \A c \in BuiltChans(b) :
    LET last == LastData(bufs[b].dmas[c])
    IN (c + 1 \in BuiltChans(b) /\ last.len = SegRemaining(last))
         => /\ bufs[b].cursor[c] = [sg |-> last.dtadr.sg + 1, ofs |-> 0]
            /\ bufs[b].dmas[c + 1].sg_cpu[0].dtadr
                 = [sg |-> last.dtadr.sg + 1, ofs |-> 0]

\* C3: each channel's first descriptor targets the position right after the
\* last byte of the previous channel, and the planes' target ranges never
\* overlap.
C3_CursorContinues ==
  \A b \in DOMAIN bufs : \A c \in BuiltChans(b) \ {0} :
    LET prev == LastData(bufs[b].dmas[c - 1])
        first == bufs[b].dmas[c].sg_cpu[0]
    IN /\ LinPos(first.dtadr) = LinPos(prev.dtadr) + prev.len
       /\ \A e \in BuiltChans(b) \ {c} :
            PlaneBytes(bufs[b].dmas[c]) \cap PlaneBytes(bufs[b].dmas[e]) = {}

\* C4: every data descriptor's length is min(bytes left in its segment from
\* its offset, bytes still to transfer) rounded up to a multiple of 8, and only
\* the first descriptor of a channel starts at a non-zero offset.
C4_DescriptorLength ==
  \A b \in DOMAIN bufs : \A c \in BuiltChans(b) :
    \A i \in 0..(bufs[b].dmas[c].sglen - 1) :
      LET d == bufs[b].dmas[c].sg_cpu[i]
          left == Target(b, c) - SumLens(bufs[b].dmas[c].sg_cpu, i)
          m == IF SegRemaining(d) < left THEN SegRemaining(d) ELSE left
      IN /\ d.len = ((m + 7) \div 8) * 8
         /\ d.len % 8 = 0
         /\ (i > 0 => d.dtadr.ofs = 0)

\* a chain whose first descriptor started inside its segment and whose later
\* descriptor was rounded up
C4_Witness ==
  \E b \in DOMAIN bufs : \E c \in BuiltChans(b) :
    /\ bufs[b].dmas[c].sglen >= 2
    /\ bufs[b].dmas[c].sg_cpu[0].dtadr.ofs > 0
    /\ \E i \in 1..(bufs[b].dmas[c].sglen - 1) :
         bufs[b].dmas[c].sg_cpu[i].len
           > Target(b, c) - SumLens(bufs[b].dmas[c].sg_cpu, i)

\* the hops from descriptor a of array cpu of (b, c) to the descriptor whose
\* link is the stop marker; -1 when a link leaves the array or fuel runs out
RECURSIVE HopsToStop(_, _, _, _, _)
HopsToStop(cpu, b, c, a, fuel) ==
  IF a.buf # b \/ a.ch # c \/ a.idx \notin DOMAIN cpu \/ fuel = 0 THEN -1
  ELSE IF cpu[a.idx].ddadr = DDADR_STOP THEN 0
  ELSE LET rest == HopsToStop(cpu, b, c, cpu[a.idx].ddadr, fuel - 1)
       IN IF rest < 0 THEN -1 ELSE rest + 1

\* C5: every built chain is a linear list: descriptor i links to i + 1, and
\* sglen hops from the head reach the terminal descriptor, whose link is the
\* stop marker; no link leaves the chain's own array.
C5_ChainLinear ==
  \A b \in DOMAIN bufs : \A c \in BuiltChans(b) :
    LET dma == bufs[b].dmas[c]
    IN /\ DOMAIN dma.sg_cpu = 0..dma.sglen
       /\ \A i \in 0..(dma.sglen - 1) : dma.sg_cpu[i].ddadr = DescAddr(b, c, i + 1)
       /\ dma.sg_cpu[dma.sglen].ddadr = DDADR_STOP
       /\ \A i \in 0..dma.sglen : dma.sg_cpu[i].written
       /\ HopsToStop(dma.sg_cpu, b, c, sg_dma(b, c), dma.sglen + 2) = dma.sglen

\* a built chain of three data descriptors
C5_Witness ==
  \E b \in DOMAIN bufs : \E c \in BuiltChans(b) : bufs[b].dmas[c].sglen >= 3

\* the scenario of 2048 byte segments and an 8192 byte 3-channel frame
InScenario == sglist = ScenarioSegs /\ vbsize = ScenarioSize /\ channels = 3

\* C6: in the scenario every prepared buffer has 2 data descriptors for Y
\* (2048 + 2048), 1 for U and 1 for V, 4 in total, none rounded; Y hands over
\* segment 2 offset 0 and U segment 3 offset 0 (segments numbered from 0);
\* each of the three buffers gets the same.
C6_Scenario ==
  InScenario =>
    \A b \in DOMAIN bufs : bufs[b].state # "NEEDS_INIT" =>
      /\ bufs[b].dmas[0].sglen = 2
      /\ bufs[b].dmas[0].sg_cpu[0].len = 2048
      /\ bufs[b].dmas[0].sg_cpu[1].len = 2048
      /\ bufs[b].dmas[1].sglen = 1
      /\ bufs[b].dmas[1].sg_cpu[0].len = 2048
      /\ bufs[b].dmas[2].sglen = 1
      /\ bufs[b].dmas[2].sg_cpu[0].len = 2048
      /\ bufs[b].dmas[0].sglen + bufs[b].dmas[1].sglen + bufs[b].dmas[2].sglen = 4
      /\ bufs[b].cursor[0] = [sg |-> 2, ofs |-> 0]
      /\ bufs[b].cursor[1] = [sg |-> 3, ofs |-> 0]
      /\ bufs[b].dmas[1].sg_cpu[0].dtadr = [sg |-> 2, ofs |-> 0]
      /\ bufs[b].dmas[2].sg_cpu[0].dtadr = [sg |-> 3, ofs |-> 0]

\* each of the three buffers of the scenario has been prepared
C6_Witness ==
  /\ InScenario
  /\ Cardinality(DOMAIN bufs) = 3
  /\ \A b \in DOMAIN bufs : bufs[b].state = "PREPARED"

(***************************************************************************)
(* Properties of the capture queue (checked under Spec).                   *)
(***************************************************************************)
\* more hops than the buffers have descriptors: a longer walk is a cycle
WalkFuel == NumBufs * (MaxSegs + 1)

\* following links from address a, the DMA engine meets written descriptors
\* only and arrives at the stop marker
RECURSIVE WalkEndsAtStop(_, _, _)
WalkEndsAtStop(bs, a, fuel) ==
  IF a = DDADR_STOP THEN TRUE
  ELSE IF fuel = 0 \/ a.buf \notin Bufs THEN FALSE
  ELSE IF a.idx \notin DOMAIN bs[a.buf].dmas[a.ch].sg_cpu THEN FALSE
  ELSE /\ Mem(bs, a).written
       /\ WalkEndsAtStop(bs, Mem(bs, a).ddadr, fuel - 1)

\* the link of the terminal descriptor of channel c of buffer b
TerminalLink(b, c) == Mem(bufs, LastDesc(bufs, b, c)).ddadr

\* C7: once pxa_videobuf_queue has returned, on every channel in use the
\* descriptors of each queued buffer link one to the next, the terminal
\* descriptor of a buffer links to the head of the buffer queued after it (so
\* no stop marker lies between two queued buffers), and the terminal
\* descriptor of the last queued buffer holds the stop marker.
C7_QueuedChainsLinked ==
  q = QIdle =>
    \A k \in 1..Len(capture) : \A c \in Chans : c < channels =>
      /\ \A i \in 0..(bufs[capture[k]].dmas[c].sglen - 1) :
           bufs[capture[k]].dmas[c].sg_cpu[i].ddadr = DescAddr(capture[k], c, i + 1)
      /\ TerminalLink(capture[k], c) =
           (IF k < Len(capture) THEN sg_dma(capture[k + 1], c) ELSE DDADR_STOP)

\* two buffers queued in 3-channel mode, the second one linked to the first
C7_Witness ==
  /\ q = QIdle
  /\ channels = 3
  /\ Len(capture) = 2
  /\ \A c \in Chans : TerminalLink(capture[1], c) = sg_dma(capture[2], c)

\* C8: pxa_dma_add_tail_buf writes the stop marker into the new buffer's
\* terminal descriptor before it links the old tail to the new buffer, so at
\* every moment, the middle of an append included, the links the DMA engine
\* can follow (from the head of the queue, or from where a running channel
\* is) lead over written descriptors to a stop marker, and a queued buffer
\* whose terminal links to the buffer being appended finds that buffer's
\* chain terminated by the stop marker.
C8_NoHalfBuiltChain ==
  \A c \in Chans : c < channels =>
    /\ capture # <<>> => WalkEndsAtStop(bufs, sg_dma(Head(capture), c), WalkFuel)
    /\ dcsr_run[c] => WalkEndsAtStop(bufs, DDADR[c], WalkFuel)
    /\ q # QIdle =>
         \A k \in 1..Len(capture) :
           (capture[k] # q.buf /\ TerminalLink(capture[k], c) = sg_dma(q.buf, c))
             => TerminalLink(q.buf, c) = DDADR_STOP

\* the middle of the append of a buffer queued for the second time, the
\* channel running: the stop marker has replaced the link its terminal held
\* since its first queueing, and the old tail is about to be linked to it
C8_Witness ==
  /\ q # QIdle
  /\ q.k = 2
  /\ nsubmits > NumBufs
  /\ dcsr_run[q.i]
  /\ sg_tail[q.i] # NULL
  /\ sg_tail[q.i].buf # q.buf
  /\ TerminalLink(q.buf, q.i) = DDADR_STOP

\* C9: buffers are marked Done in the order of their submission: the i-th
\* buffer marked Done is the i-th buffer handed to pxa_videobuf_queue.
C9_DoneInSubmissionOrder ==
  \A i \in 1..Len(doneLog) : doneLog[i] = i

\* three submissions are Done, one of them after a FIFO overrun
C9_Witness ==
  /\ Len(doneLog) = MaxSubmits
  /\ novr > 0

\* the submission numbers marked Done so far
DoneSubs == {doneLog[i] : i \in 1..Len(doneLog)}

\* C10: in 3-channel mode a buffer is marked Done only when the completions
\* of all of Y, U and V have been handled for it, whatever their order: as
\* long as one is outstanding the active buffer is not Done, and no
\* submission is marked Done twice.
C10_DoneAfterAllThree ==
  channels = 3 =>
    /\ doneLog # <<>> => doneEot = {0, 1, 2}
    /\ (active # 0 /\ Len(eot) < 3) =>
         /\ bufs[active].state = "ACTIVE"
         /\ subid[active] \notin DoneSubs
         /\ bufs[active].active_dma # {}
    /\ \A i, j \in 1..Len(doneLog) : i # j => doneLog[i] # doneLog[j]

\* a buffer is Done after its three completions, and the next one has had
\* the completion of V handled first, then U, with Y outstanding
C10_Witness ==
  /\ channels = 3
  /\ Len(doneLog) = 1
  /\ doneEot = {0, 1, 2}
  /\ eot = <<2, 1>>


(***************************************************************************)
(* Properties of the interrupt handlers (checked under Spec).              *)
(***************************************************************************)
\* every channel in use
InUse == {c \in Chans : c < channels}

\* a step of the completion handler of channel c that finds an overrun
\* reported while the active buffer is not the last one queued
OverrunStep(c) ==
  DmaIrq(c) /\ active # 0 /\ cisr_ifo /\ HeadIsNotLast(capture)

\* the step leaves the state and the mask of every buffer as they were
BuffersUntouched ==
  \A b \in Bufs : /\ bufs'[b].state = bufs[b].state
                  /\ bufs'[b].active_dma = bufs[b].active_dma

\* pxa_camera_start_capture has just armed capture
JustArmed == fifo_clean' /\ cicr0_enb' /\ ~cicr0_eofm'

\* C11: an overrun reported while the head is not the last queued buffer
\* leaves the queue, the buffers' states and masks and the Done log as they
\* were and re-arms capture; the channels are next started from the buffer
\* whose frame was dropped, which is still the active head of the queue.
C11_OverrunRestartsHead ==
  [][/\ \A c \in InUse : OverrunStep(c) =>
          /\ capture' = capture
          /\ doneLog' = doneLog
          /\ BuffersUntouched
          /\ JustArmed
          /\ aborted' = Head(capture)
     /\ (CameraIrqStart /\ aborted # 0) =>
          /\ ~oops'
          /\ active' = aborted
          /\ Head(capture') = aborted
          /\ bufs'[aborted].state = "ACTIVE"
          /\ \A c \in InUse : DDADR'[c] = sg_dma(aborted, c) /\ dcsr_run'[c]]_vars

\* C12: an overrun with more than one buffer queued stops every channel in
\* use, clears the active buffer and re-arms capture at once; the buffer whose
\* frame was dropped is not marked Done on the bits cleared before the overrun:
\* its state stays as it is until the channels are next started, and that step
\* leaves its mask holding every channel in use.
C12_OverrunResetsMask ==
  [][/\ \A c \in InUse : OverrunStep(c) =>
          /\ \A e \in InUse : ~dcsr_run'[e]
          /\ active' = 0
          /\ JustArmed
     /\ aborted # 0 =>
          /\ bufs'[aborted].state = bufs[aborted].state
          /\ CameraIrqStart =>
               bufs'[aborted].active_dma = pxa_videobuf_set_actdma(channels)]_vars

\* pxa_camera_irq is entered at the end of a frame and returns within the
\* blanking interval that follows it: while it executes no pixel data arrives,
\* so no data transfer ends (a transfer that pxa_dma_start_channels has just
\* started lasts a frame's worth of pixel clocks) and no FIFO overruns
InBlanking == cirq # CIdle

HwStepTimed(c) == ~InBlanking /\ HwStep(c)

HwOverrunTimed == ~InBlanking /\ HwOverrun

NextTimed ==
  \/ \E b \in Bufs : Prepare(b)
  \/ \E b \in Bufs : Dqbuf(b)
  \/ \E b \in Bufs : QueueBegin(b)
  \/ QueueStep
  \/ CameraIrqFirst
  \/ CameraIrqStart
  \/ CameraIrqMask
  \/ \E c \in Chans : DmaIrq(c)
  \/ \E c \in Chans : HwStepTimed(c)
  \/ HwOverrunTimed

\* the scheduling the capture machine runs under: a pending interrupt is
\* served, a handler that was entered runs to its end, pxa_videobuf_queue
\* returns, and a running DMA channel makes progress
FairSpec ==
  /\ Init
  /\ [][NextTimed]_vars
  /\ WF_vars(CameraIrqFirst)
  /\ WF_vars(CameraIrqStart)
  /\ WF_vars(CameraIrqMask)
  /\ WF_vars(QueueStep)
  /\ \A c \in Chans : WF_vars(DmaIrq(c)) /\ WF_vars(HwStepTimed(c))

\* every channel in use has stopped at the stop marker
AllStopped == \A c \in InUse : DDADR[c] = DDADR_STOP

\* a step of the completion handler of channel c that marks the head Done
\* while every channel has already stopped and a later buffer is queued
LinkMissStep(c) ==
  DmaIrq(c) /\ doneLog' # doneLog /\ AllStopped /\ HeadIsNotLast(capture)

\* no submission is in the Done log twice
NoneDoneTwice ==
  \A i, j \in DOMAIN doneLog : doneLog[i] = doneLog[j] => i = j

CompletionStep(c) == DmaIrq(c) /\ doneLog' # doneLog

\* C14: in every step of the completion handler that marks a buffer Done the
\* link-miss detector has run: it re-armed capture exactly when every channel
\* in use is at the stop marker and a buffer remains active, which is exactly
\* when the queue is not empty; no other step of the handler is a re-arming by
\* the detector.
C14_DetectorAfterCompletion ==
  [][\A c \in InUse :
       /\ CompletionStep(c) =>
            /\ (active' # 0) <=> (capture' # <<>>)
            /\ (armed_by' = "linkmiss") <=>
                 ((\A e \in InUse : DDADR'[e] = DDADR_STOP) /\ active' # 0)
            /\ (armed_by' = "linkmiss") => JustArmed
            /\ (armed_by' # "linkmiss" /\ active' # 0) =>
                 /\ cicr0_enb' = cicr0_enb
                 /\ cicr0_eofm' = cicr0_eofm
       /\ (DmaIrq(c) /\ armed_by' = "linkmiss") => doneLog' # doneLog]_vars

\* a completion in three-channel mode after which the detector re-armed
\* capture for the buffer that remains
C14_Witness ==
  /\ channels = 3
  /\ armed_by = "linkmiss"
  /\ doneLog # <<>>
  /\ capture # <<>>
  /\ \A c \in InUse : DDADR[c] = DDADR_STOP /\ ~dcsr_run[c]

\* C15: whenever a DMA channel in use is running, the capture queue is not
\* empty.
C15_RunningImpliesQueued ==
  (\E c \in InUse : dcsr_run[c]) => capture # <<>>

\* a channel is running the only buffer left in the queue after an earlier
\* buffer was marked Done, while another channel has already stopped
C15_Witness ==
  /\ channels = 3
  /\ Len(capture) = 1
  /\ doneLog # <<>>
  /\ \E c \in InUse : dcsr_run[c]
  /\ \E c \in InUse : ~dcsr_run[c] /\ DDADR[c] = DDADR_STOP

\* C16: if there is an active buffer, the capture queue is not empty and the
\* active buffer is its head; the active buffer has not been removed from the
\* queue: it is in state ACTIVE, not DONE or handed back.
C16_ActiveIsHead ==
  active # 0 =>
    /\ capture # <<>>
    /\ active = Head(capture)
    /\ bufs[active].state = "ACTIVE"

\* the second buffer has become the active head after the first was marked
\* Done and removed, while a resubmitted buffer waits behind it
C16_Witness ==
  /\ active # 0
  /\ Len(capture) = 2
  /\ doneLog # <<>>
  /\ subid[active] = Len(doneLog) + 1
  /\ \E c \in InUse : dcsr_run[c]

\* C17: pxa_videobuf_queue and the frame-boundary handler hold the device
\* lock from their first access of the shared capture state to their last,
\* and the completion handler, which takes the lock for its whole run, is
\* never served in between the accesses of either.
C17_HandlersExclusive ==
  [][/\ q' # QIdle => lock' # "free"
     /\ cirq'.pc # 0 => lock' # "free"
     /\ \A c \in InUse : DmaIrq(c) => (q = QIdle /\ cirq = CIdle)]_vars

\* the step sets DCSR_RUN of a channel that was not running
StartsChannel == \E c \in InUse : ~dcsr_run[c] /\ dcsr_run'[c]

\* a step of pxa_videobuf_queue or of the completion handler in which
\* pxa_camera_start_capture is called
ArmingStep ==
  /\ QueueStep \/ \E c \in InUse : DmaIrq(c)
  /\ armed_by' # "none"

\* C18: a channel is started only in the step of pxa_camera_irq that calls
\* pxa_dma_start_channels; a step in which pxa_videobuf_queue, the overrun
\* recovery or the link-miss detector arms capture starts no channel and
\* leaves no channel in use running.
C18_StartOnlyAtFrameBoundary ==
  [][/\ StartsChannel => CameraIrqStart
     /\ ArmingStep =>
          /\ armed_by' \in {"queue", "overrun", "linkmiss"}
          /\ JustArmed
          /\ \A c \in InUse : ~dcsr_run'[c]]_vars

\* the overrun recovery has armed capture after stopping a channel in the
\* middle of its chain
C18_Witness ==
  /\ armed_by = "overrun"
  /\ cicr0_enb /\ ~cicr0_eofm
  /\ \A c \in InUse : ~dcsr_run[c]
  /\ \E c \in InUse : DDADR[c] # DDADR_STOP

\* the step in which pxa_videobuf_queue returns
QueueReturns == QueueStep /\ q' = QIdle

\* C19: pxa_videobuf_queue appends the buffer at the tail of the queue and,
\* when it returns, the buffer is the tail of every channel in use and no
\* channel has been started; with no active buffer capture is armed (FIFOs
\* reset, interface enabled, end-of-frame interrupt unmasked), with an active
\* buffer the interface registers are left as they were.
C19_QueueArmsWhenIdle ==
  [][/\ \A b \in Bufs : QueueBegin(b) => capture' = Append(capture, b)
     /\ QueueReturns =>
          /\ capture' = capture
          /\ capture[Len(capture)] = q.buf
          /\ \A c \in InUse : sg_tail'[c] = LastDesc(bufs', q.buf, c)
          /\ dcsr_run' = dcsr_run
          /\ active' = active
          /\ IF active = 0
             THEN /\ armed_by' = "queue"
                  /\ JustArmed
                  /\ \A c \in InUse : ~dcsr_run'[c]
             ELSE /\ armed_by' = "none"
                  /\ cicr0_enb' = cicr0_enb
                  /\ cicr0_eofm' = cicr0_eofm
                  /\ fifo_clean' = fifo_clean]_vars

\* pxa_videobuf_queue has armed the controller again after it had gone idle
\* at the completion of every buffer queued before
C19_Witness ==
  /\ armed_by = "queue"
  /\ q = QIdle
  /\ active = 0
  /\ Len(capture) = 1
  /\ doneLog # <<>>
  /\ fifo_clean /\ cicr0_enb /\ ~cicr0_eofm

\* C20: the end-of-frame interrupt is served only while it is unmasked; its
\* handler makes the queue head the active buffer, starts every channel in use
\* from the chain heads of the active buffer, which is still the queue head
\* and whose mask then holds every channel in use, and masks the end-of-frame
\* interrupt; only an arming of capture unmasks it again.
C20_FrameBoundaryStarts ==
  [][/\ CameraIrqFirst =>
          /\ cicr0_enb /\ ~cicr0_eofm
          /\ ~oops'
          /\ active' = Head(capture)
     /\ CameraIrqStart =>
          /\ ~oops'
          /\ active' = Head(capture')
          /\ bufs'[active'].state = "ACTIVE"
          /\ bufs'[active'].active_dma = pxa_videobuf_set_actdma(channels)
          /\ \A c \in InUse : DDADR'[c] = sg_dma(active', c) /\ dcsr_run'[c]
     /\ CameraIrqMask => cicr0_eofm'
     /\ (cicr0_eofm /\ ~cicr0_eofm') => armed_by' # "none"]_vars

\* C21: the completion that empties the capture queue stops every channel in
\* use, disables the interface, clears the active buffer and clears the tail
\* of every channel in use; a later pxa_videobuf_queue writes no descriptor of
\* a buffer that is not in the queue, and the one that finds the queue empty
\* arms capture when it returns.
C21_LastCompletionIdles ==
  [][/\ \A c \in InUse : (CompletionStep(c) /\ capture' = <<>>) =>
          /\ \A e \in InUse : ~dcsr_run'[e] /\ sg_tail'[e] = NULL
          /\ ~cicr0_enb'
          /\ active' = 0
     /\ QueueStep =>
          \A b \in Bufs : bufs[b].state # "ACTIVE" => bufs'[b].dmas = bufs[b].dmas
     /\ (QueueReturns /\ capture = <<q.buf>>) => armed_by' = "queue"]_vars

\* in three-channel mode the last buffer has been marked Done: the queue is
\* empty, the interface disabled and every tail cleared
C21_Witness ==
  /\ channels = 3
  /\ capture = <<>>
  /\ doneLog # <<>>
  /\ active = 0
  /\ ~cicr0_enb
  /\ \A c \in InUse : ~dcsr_run[c] /\ sg_tail[c] = NULL

\* capture is armed: the interface is enabled and the end-of-frame interrupt
\* is unmasked
Armed == cicr0_enb /\ ~cicr0_eofm

\* the controller is idle: no active buffer and capture not armed
Idle == active = 0 /\ ~Armed

\* no operation of the driver is in the middle of its statements
BetweenOperations == q = QIdle /\ cirq = CIdle

BusErrorStep(c) == DmaIrq(c) /\ dcsr_buserr[c]

\* C23: a completion handler whose status reports a bus error acknowledges the
\* status and does nothing else, whatever else the status reports: no channel
\* is started or stopped, no mask bit is cleared, no buffer is marked Done, capture is
\* neither re-armed nor restarted, and the queue, the active buffer and the
\* tails are as they were.
C23_BusErrorNoRecovery ==
  [][\A c \in InUse : BusErrorStep(c) =>
       /\ dcsr_run' = dcsr_run
       /\ DDADR' = DDADR
       /\ bufs' = bufs
       /\ doneLog' = doneLog
       /\ armed_by' = "none"
       /\ cicr0_enb' = cicr0_enb
       /\ cicr0_eofm' = cicr0_eofm
       /\ fifo_clean' = fifo_clean
       /\ capture' = capture
       /\ active' = active
       /\ sg_tail' = sg_tail]_vars

\* a bus error has been handled while an overrun was reported and two buffers
\* were queued: the channel is stopped in the middle of its chain, its status
\* is acknowledged, and the head is still active
C23_Witness ==
  /\ nbus > 0
  /\ cisr_ifo
  /\ Len(capture) = 2
  /\ active # 0
  /\ \A c \in InUse : ~dcsr_buserr[c]
  /\ \E c \in InUse : ~dcsr_run[c] /\ ~dcsr_endintr[c] /\ DDADR[c] # DDADR_STOP

(***************************************************************************)
(* Failure and release of the descriptor memory.                           *)
(***************************************************************************)
\* buffer b references no descriptor array, complete or partial
NoArrays(buf) ==
  \A c \in Chans : ~buf.dmas[c].allocated /\ buf.dmas[c].sg_cpu = <<>>

\* no channel register and no tail points into an array of buffer b
HardwareClearOf(b) ==
  \A c \in Chans : DDADR[c].buf # b /\ sg_tail[c].buf # b

\* C24: when the allocation of the descriptor array of any channel fails in
\* pxa_videobuf_prepare, the call returns -ENOMEM, the buffer is left in the
\* state NEEDS_INIT and is not handed to the capture queue, and afterwards
\* the buffer references no descriptor array and the hardware reaches none.
C24_AllocFailureLeavesNothing ==
  [][/\ \A b \in DOMAIN bufs : \A failc \in Chans : PrepareNoMem(b, failc) =>
          /\ bufs'[b].ret = -ENOMEM
          /\ bufs'[b].state = "NEEDS_INIT"
          /\ ~bufs'[b].inwork
          /\ NoArrays(bufs'[b])
          /\ HardwareClearOf(b)'
     /\ \A b \in DOMAIN bufs : bufs'[b].ret = -ENOMEM =>
          /\ ~bufs'[b].qbuf
          /\ \A k \in 1..Len(capture') : capture'[k] # b]_vars

\* the allocation for the V channel has failed after the arrays of Y and U
\* had been built: the call has returned -ENOMEM and nothing is left
C24_Witness ==
  \E b \in DOMAIN bufs :
    /\ channels = 3
    /\ bufs[b].ret = -ENOMEM
    /\ bufs[b].refreed = {0, 1}
    /\ bufs[b].geom = icd
    /\ NoArrays(bufs[b])

\* dma_free_coherent is never called twice on one array
NoArrayReleasedTwice == \A b \in DOMAIN bufs : bufs[b].refreed = {}

\* the array the address a lies in is allocated
Allocated(a) == bufs[a.buf].dmas[a.ch].allocated

\* videobuf_waiton in free_buffer returns for buffer b: its state is neither
\* QUEUED nor ACTIVE
WaitonReturns(b) == bufs[b].state \notin {"QUEUED", "ACTIVE"}

\* pxa_videobuf_release from process context while the capture machine runs:
\* free_buffer waits in videobuf_waiton, then releases the arrays
ReleaseCapture(b) ==
  /\ q = QIdle
  /\ cirq = CIdle
  /\ lock = "free"
  /\ WaitonReturns(b)
  /\ Release(b)

\* the DMA engine on a channel whose next descriptor lies in an allocated array
HwStepAllocated(c) ==
  /\ DDADR[c] # DDADR_STOP
  /\ Allocated(DDADR[c])
  /\ HwStep(c)

\* the DMA engine fetches a descriptor from an array free_buffer has released:
\* what it loads and does next is undefined, nothing after it is modelled
HwFetchFreed(c) ==
  /\ ~oops
  /\ c < channels
  /\ dcsr_run[c]
  /\ DDADR[c] # DDADR_STOP
  /\ ~Allocated(DDADR[c])
  /\ oops' = TRUE
  /\ UNCHANGED <<buildVars, bufs, devVars, hwVars, ctlVars, q, histVars>>

\* the capture machine with buffer release and without bus errors
NextRelease ==
  \/ \E b \in Bufs : Prepare(b)
  \/ \E b \in Bufs : Dqbuf(b)
  \/ \E b \in Bufs : ReleaseCapture(b)
  \/ \E b \in Bufs : QueueBegin(b)
  \/ QueueStep
  \/ CameraIrqFirst
  \/ CameraIrqStart
  \/ CameraIrqMask
  \/ \E c \in Chans : DmaIrq(c)
  \/ \E c \in Chans : HwStepAllocated(c)
  \/ \E c \in Chans : HwFetchFreed(c)
  \/ HwOverrun

SpecRelease == Init /\ [][NextRelease]_vars

\* C25: the descriptor arrays of a buffer are released only while the buffer
\* is neither in the capture queue nor the active buffer, and therefore the
\* next descriptor of no running channel, the chain of no queued buffer and
\* no tail lies in released memory.
C25_NoReleasedChainReachable ==
  /\ \A c \in InUse : (dcsr_run[c] /\ DDADR[c] # DDADR_STOP) => Allocated(DDADR[c])
  /\ \A c \in InUse : sg_tail[c] # NULL => Allocated(sg_tail[c])
  /\ \A k \in 1..Len(capture) : \A c \in InUse : bufs[capture[k]].dmas[c].allocated
  /\ active # 0 => \A c \in InUse : bufs[active].dmas[c].allocated

\* buffer b is in the capture queue and is not the buffer pxa_videobuf_queue
\* is appending
AlreadyQueued(b) ==
  /\ \E k \in 1..Len(capture) : capture[k] = b
  /\ q.buf # b

\* descriptor i of channel c of buffer b
DescOf(bs, b, c, i) == bs[b].dmas[c].sg_cpu[i]

\* C26: among the descriptors of the buffers already in the capture queue, a
\* step changes nothing but the link field of the previous tail descriptor of
\* a channel in use, and only pxa_dma_add_tail_buf changes it, from the stop
\* marker to the head of the appended buffer's chain; source, target, length
\* and every other link of a queued buffer's chain stay as they were built.
C26_OnlyTailLinkChanges ==
  [][\A b \in Bufs : AlreadyQueued(b) =>
       \A c \in InUse :
         /\ bufs'[b].dmas[c].sglen = bufs[b].dmas[c].sglen
         /\ bufs'[b].dmas[c].allocated
         /\ \A i \in 0..bufs[b].dmas[c].sglen :
              /\ [DescOf(bufs', b, c, i) EXCEPT !.ddadr = DescOf(bufs, b, c, i).ddadr]
                   = DescOf(bufs, b, c, i)
              /\ DescOf(bufs', b, c, i).ddadr # DescOf(bufs, b, c, i).ddadr =>
                   /\ QueueStep
                   /\ sg_tail[c] = DescAddr(b, c, i)
                   /\ i = bufs[b].dmas[c].sglen
                   /\ DescOf(bufs, b, c, i).ddadr = DDADR_STOP
                   /\ DescOf(bufs', b, c, i).ddadr = sg_dma(q.buf, c)]_vars

\* a second buffer has been appended behind a queued one: the terminal
\* descriptor of the first links to the head of the second on every channel
C26_Witness ==
  /\ q = QIdle
  /\ Len(capture) = 2
  /\ \A c \in InUse :
       /\ Mem(bufs, LastDesc(bufs, capture[1], c)).ddadr = sg_dma(capture[2], c)
       /\ sg_tail[c] = LastDesc(bufs, capture[2], c)

\* a step of the completion handler of channel c that finds ENDINTR and an
\* overrun reported while the active buffer is the only one queued
LastBufferOverrunStep(c) ==
  /\ DmaIrq(c)
  /\ dcsr_endintr[c]
  /\ ~dcsr_buserr[c]
  /\ active # 0
  /\ cisr_ifo
  /\ Len(capture) = 1

\* C27: when an overrun is reported while the active buffer is the only one
\* queued, the completion is handled as without overrun: the channel's bit is
\* cleared; when the mask is empty the buffer is marked Done and leaves the
\* queue, otherwise nothing else changes; capture is neither stopped and
\* re-armed nor restarted and the overrun status is left as it is.
C27_OverrunOnLastIgnored ==
  [][\A c \in InUse : LastBufferOverrunStep(c) =>
       /\ bufs'[active].active_dma = bufs[active].active_dma \ {ActDma(c)}
       /\ armed_by' = "none"
       /\ cisr_ifo' = cisr_ifo
       /\ cicr0_eofm' = cicr0_eofm
       /\ DDADR' = DDADR
       /\ aborted' = aborted
       /\ IF bufs[active].active_dma \ {ActDma(c)} = {}
          THEN /\ bufs'[active].state = "DONE"
               /\ doneLog' = Append(doneLog, subid[active])
               /\ capture' = <<>>
               /\ active' = 0
          ELSE /\ bufs'[active].state = bufs[active].state
               /\ doneLog' = doneLog
               /\ capture' = capture
               /\ active' = active
               /\ dcsr_run' = dcsr_run
               /\ cicr0_enb' = cicr0_enb
               /\ sg_tail' = sg_tail]_vars

\* the last buffer of the queue has been completed while an overrun was
\* reported: it is Done, the queue is empty, the overrun is still reported
\* and capture has not been re-armed
C27_Witness ==
  /\ cisr_ifo
  /\ novr > 0
  /\ capture = <<>>
  /\ active = 0
  /\ doneLog # <<>>
  /\ ~cicr0_enb
  /\ armed_by = "none"
  /\ aborted = 0

\* a step of the completion handler of channel c that finds ENDINTR reported
\* and no active buffer
NoActiveStep(c) ==
  /\ DmaIrq(c)
  /\ dcsr_endintr[c]
  /\ ~dcsr_buserr[c]
  /\ active = 0

\* C28: a completion interrupt handled while there is no active buffer
\* acknowledges the channel's status and changes nothing else: the queue, the
\* buffers with their masks and states, the tails, the channels, the Done log
\* and the armed state of capture are as before.
C28_NoActiveOnlyAcknowledges ==
  [][\A c \in InUse : NoActiveStep(c) =>
       /\ dcsr_endintr' = [dcsr_endintr EXCEPT ![c] = FALSE]
       /\ bufs' = bufs
       /\ capture' = capture
       /\ active' = 0
       /\ sg_tail' = sg_tail
       /\ doneLog' = doneLog
       /\ DDADR' = DDADR
       /\ dcsr_run' = dcsr_run
       /\ cicr0_enb' = cicr0_enb
       /\ cicr0_eofm' = cicr0_eofm
       /\ cisr_ifo' = cisr_ifo
       /\ fifo_clean' = fifo_clean
       /\ armed_by' = "none"
       /\ ~oops']_vars

\* the overrun branch has stopped capture and re-armed it, and a completion
\* that was pending on another channel has then been handled without an
\* active buffer: capture is still armed for the dropped buffer
C28_Witness ==
  /\ aborted # 0
  /\ nbus = 0
  /\ active = 0
  /\ cirq = CIdle
  /\ q = QIdle
  /\ armed_by = "none"
  /\ Armed
  /\ capture # <<>>

(***************************************************************************)
(* SpecFmt: the capture machine without overruns and bus errors, with      *)
(* changes of the format and the geometry between captures.                *)
(***************************************************************************)
\* the formats and geometries S_FMT chooses from, for a memory that holds
\* frames of size bytes: they differ from one another in the format only, the
\* width only, the height only, or in several of them; the field of the queue
\* is V4L2_FIELD_NONE throughout
Geoms(size) ==
  {[depth |-> 8, width |-> size, height |-> 1, field |-> "NONE"],
   [depth |-> 5, width |-> size, height |-> 1, field |-> "NONE"],
   [depth |-> 8, width |-> size \div 2, height |-> 1, field |-> "NONE"],
   [depth |-> 8, width |-> size \div 2, height |-> 2, field |-> "NONE"]}

\* videobuf_queue_is_busy: a buffer is handed to the driver or being captured
QueueBusy ==
  \/ capture # <<>>
  \/ active # 0
  \/ q # QIdle
  \/ \E b \in Bufs : bufs[b].qbuf \/ bufs[b].state \in {"QUEUED", "ACTIVE"}

\* S_FMT: pxa_camera_set_fmt records the new format, the core the new width
\* and height; refused while the queue is busy
SetFmt(g) ==
  /\ ~oops
  /\ cirq = CIdle
  /\ ~QueueBusy
  /\ g \in Geoms(CaptureSize(channels))
  /\ g # icd
  /\ icd' = g
  /\ vbsize' = FrameBytes(g)
  /\ UNCHANGED <<sglist, channels, setup, bufs, devVars, hwVars, ctlVars, q, oops,
                 histVars>>

NextFmt ==
  \/ \E b \in Bufs : Prepare(b)
  \/ \E b \in Bufs : Dqbuf(b)
  \/ \E b \in Bufs : QueueBegin(b)
  \/ QueueStep
  \/ CameraIrqFirst
  \/ CameraIrqStart
  \/ CameraIrqMask
  \/ \E c \in Chans : DmaIrq(c)
  \/ \E c \in Chans : HwStep(c)
  \/ \E g \in Geoms(CaptureSize(channels)) : SetFmt(g)

SpecFmt == Init /\ [][NextFmt]_vars

\* the chains pxa_videobuf_prepare builds for buffer b from scratch
FreshChains(b) == BuildChains(sglist, b, channels, FrameBytes(icd))

\* C29: pxa_videobuf_prepare rebuilds the chains exactly when the buffer is in
\* state NEEDS_INIT or its recorded format, width, height or field differs
\* from the current one; otherwise it leaves the chains and the state of the
\* buffer as they are.  In both cases the mask is reset to every channel in
\* use.
C29_PrepareRebuildsWhenNeeded ==
  [][\A b \in Bufs : Prepare(b) =>
       /\ bufs'[b].active_dma = pxa_videobuf_set_actdma(channels)
       /\ ~bufs'[b].inwork
       /\ bufs'[b].size = FrameBytes(icd)
       /\ IF \/ bufs[b].state = "NEEDS_INIT"
             \/ bufs[b].geom.depth # icd.depth
             \/ bufs[b].geom.width # icd.width
             \/ bufs[b].geom.height # icd.height
             \/ bufs[b].geom.field # icd.field
          THEN /\ \A c \in InUse : bufs'[b].dmas[c] = FreshChains(b).dmas[c]
               /\ bufs'[b].geom = icd
               /\ bufs'[b].state = "PREPARED"
          ELSE /\ bufs'[b].dmas = bufs[b].dmas
               /\ bufs'[b].geom = bufs[b].geom
               /\ bufs'[b].state = bufs[b].state]_vars

\* a buffer that was captured behind another one has been prepared again with
\* the format and geometry unchanged: it is handed to the driver with the
\* chains of its first preparation, whose terminal link is not the stop marker
\* a rebuild would have written
C29_Witness ==
  \E b \in Bufs : \E c \in InUse :
    /\ bufs[b].qbuf
    /\ bufs[b].state = "IDLE"
    /\ bufs[b].geom = icd
    /\ bufs[b].active_dma = pxa_videobuf_set_actdma(channels)
    /\ bufs[b].dmas[c] # FreshChains(b).dmas[c]

(***************************************************************************)
(* SpecSetup: pxa_videobuf_setup on drawn geometries and requested counts. *)
(***************************************************************************)
\* the widths and heights pxa_camera_try_fmt lets through (48..2048 even,
\* 32..2048), the bits per pixel of the host formats, and the counts the
\* videobuf core requests (0 for the default, at most VIDEO_MAX_FRAME) and
\* one above them
SetupWidths == {48, 50, 640, 2046, 2048}
SetupHeights == {32, 33, 480, 2047, 2048}
SetupDepths == {8, 16}
MaxCount == 32
SetupCounts == 0..MaxCount \cup {100}

\* a size that is not rounded
SetupSizeNoRound(g) == FrameBytes(g)

\* *size = roundup(width * height * ((depth + 7) >> 3), 8)
SetupSize(g) == roundup(FrameBytes(g), XferAlign)

\* a loop test that also refuses a total equal to the limit
OverLimitOrEqual(size, count) == size * count >= vid_limit * 1024 * 1024

\* *size * *count > vid_limit * 1024 * 1024
OverLimit(size, count) == size * count > vid_limit * 1024 * 1024

\* the statements before the loop: the size and the default count
SetupEntry ==
  /\ setup.pc = "entry"
  /\ setup' = [setup EXCEPT !.pc = "loop",
                            !.size = SetupSize(icd),
                            !.count = IF @ = 0 THEN 32 ELSE @]
  /\ UNCHANGED <<sglist, vbsize, channels, icd, bufs, devVars, hwVars, ctlVars, q,
                 oops, histVars>>

\* one iteration of the loop: (*count)--
SetupLoop ==
  /\ setup.pc = "loop"
  /\ OverLimit(setup.size, setup.count)
  /\ setup' = [setup EXCEPT !.count = @ - 1]
  /\ UNCHANGED <<sglist, vbsize, channels, icd, bufs, devVars, hwVars, ctlVars, q,
                 oops, histVars>>

\* the loop test fails: return 0
SetupReturn ==
  /\ setup.pc = "loop"
  /\ ~OverLimit(setup.size, setup.count)
  /\ setup' = [setup EXCEPT !.pc = "done"]
  /\ UNCHANGED <<sglist, vbsize, channels, icd, bufs, devVars, hwVars, ctlVars, q,
                 oops, histVars>>

InitSetup ==
  /\ sglist = CaptureSegs
  /\ channels \in {1, 3}
  /\ icd \in [depth : SetupDepths, width : SetupWidths, height : SetupHeights,
              field : {"NONE"}]
  /\ vbsize = FrameBytes(icd)
  /\ setup \in [pc : {"entry"}, req : SetupCounts, count : SetupCounts, size : {0}]
  /\ setup.count = setup.req
  /\ bufs = [b \in Bufs |-> NewBuffer]
  /\ InitDevice

NextSetup == SetupEntry \/ SetupLoop \/ SetupReturn

\* a function that has been called runs on until it returns
SpecSetup ==
  /\ InitSetup
  /\ [][NextSetup]_vars
  /\ WF_vars(SetupEntry)
  /\ WF_vars(SetupLoop)
  /\ WF_vars(SetupReturn)

\* the count pxa_videobuf_setup starts from: the requested one, or 32
SetupWanted == IF setup.req = 0 THEN 32 ELSE setup.req

\* what pxa_videobuf_setup has to return for the drawn inputs
SetupResultRight ==
  /\ setup.size % 8 = 0
  /\ setup.size >= FrameBytes(icd)
  /\ setup.size < FrameBytes(icd) + 8
  /\ setup.count >= 0
  /\ setup.count <= SetupWanted
  /\ setup.size * setup.count <= vid_limit * 1024 * 1024
  /\ setup.count < SetupWanted =>
       setup.size * (setup.count + 1) > vid_limit * 1024 * 1024

\* C30: pxa_videobuf_setup returns for every requested count and geometry;
\* the size it returns is width * height * bytes per pixel rounded up to a
\* multiple of 8, and the count is the largest one not above the requested
\* count (32 when 0 was requested) whose total size is within the video
\* memory limit of 16 megabytes.
C30_SetupNegotiates ==
  /\ [](setup.pc = "done" => SetupResultRight)
  /\ <>(setup.pc = "done")

\* the call has returned a rounded size and a count cut down to the limit
C30_Witness ==
  /\ setup.pc = "done"
  /\ setup.size # FrameBytes(icd)
  /\ setup.count > 0
  /\ setup.count < SetupWanted

(***************************************************************************)
(* Properties of the tails and of the linked chains.                       *)
(***************************************************************************)
\* the last buffer of the capture queue
LastQueued == capture[Len(capture)]

\* C31: while pxa_videobuf_queue is not appending, the tail of every channel
\* in use is set exactly when the capture queue is not empty; it is then the
\* terminal descriptor of that channel's chain in the last queued buffer, and
\* the link of that descriptor is the stop marker.
C31_TailIsLastTerminal ==
  q = QIdle =>
    \A c \in InUse :
      /\ (sg_tail[c] # NULL) <=> (capture # <<>>)
      /\ sg_tail[c] # NULL =>
           /\ sg_tail[c] = LastDesc(bufs, LastQueued, c)
           /\ Mem(bufs, sg_tail[c]).ddadr = DDADR_STOP

\* two buffers were queued, the first has been completed and has left the
\* queue: the tails are the terminal descriptors of the second
C31_Witness ==
  /\ q = QIdle
  /\ channels = 3
  /\ Len(capture) = 1
  /\ doneLog # <<>>
  /\ \A c \in InUse : sg_tail[c] = LastDesc(bufs, capture[1], c)
  /\ \E b \in Bufs : bufs[b].state = "DONE"
                     /\ \E c \in InUse : Mem(bufs, LastDesc(bufs, b, c)).ddadr
                                           = sg_dma(capture[1], c)

\* the descriptors the DMA engine loads when it follows the links from
\* address a, at most fuel of them; NULL stands for a walk that has not ended
RECURSIVE LinkWalk(_, _, _)
LinkWalk(bs, a, fuel) ==
  IF a = DDADR_STOP THEN <<>>
  ELSE IF fuel = 0 THEN <<NULL>>
  ELSE <<a>> \o LinkWalk(bs, Mem(bs, a).ddadr, fuel - 1)

\* the descriptors of channel c of the buffers list[k..], in queue order
RECURSIVE QueuedDescs(_, _, _, _)
QueuedDescs(bs, list, k, c) ==
  IF k > Len(list) THEN <<>>
  ELSE [i \in 1..(bs[list[k]].dmas[c].sglen + 1) |-> DescAddr(list[k], c, i - 1)]
       \o QueuedDescs(bs, list, k + 1, c)

\* C32: while pxa_videobuf_queue is not appending and the queue is not
\* empty, on every channel in use the links followed from the head of the
\* queue head's chain pass through every descriptor of every queued buffer,
\* in queue order and once each, and end at the stop marker after the last
\* queued buffer: the walk has no cycle and enters no buffer outside the
\* queue.
C32_LinksFollowQueue ==
  (q = QIdle /\ capture # <<>>) =>
    \A c \in InUse :
      LinkWalk(bufs, sg_dma(capture[1], c),
               Len(QueuedDescs(bufs, capture, 1, c)) + 1)
        = QueuedDescs(bufs, capture, 1, c)

\* a buffer that was completed and dequeued has been submitted again behind
\* the buffer that was queued after it: a link it held from its first capture
\* has been replaced by the stop marker
C32_Witness ==
  /\ q = QIdle
  /\ channels = 1
  /\ Len(capture) = 2
  /\ Len(doneLog) >= 1
  /\ subid[capture[2]] = 3
  /\ subid[capture[1]] = 2

\* the numbers pxa_videobuf_queue gives to the submissions
Submissions == 1..MaxSubmits

\* submission n has been handed to pxa_videobuf_queue
Submitted(n) == \E b \in Bufs : subid[b] = n

\* submission n has been marked Done
MarkedDone(n) == \E k \in DOMAIN doneLog : doneLog[k] = n

\* C33: when frame boundaries keep occurring, started channels keep running
\* through their chains, raised completion interrupts are handled and no bus
\* error occurs, every buffer submitted with pxa_videobuf_queue is eventually
\* marked Done.
C33_SubmittedEventuallyDone ==
  \A n \in Submissions : Submitted(n) ~> MarkedDone(n)


\* the completion handler of channel c clears the bit of c in the mask of
\* the active buffer
ClearsMaskBit(c) ==
  /\ DmaIrq(c)
  /\ active # 0
  /\ ActDma(c) \in bufs[active].active_dma
  /\ ActDma(c) \notin bufs'[active].active_dma

\* the next descriptor channel c will fetch lies in the chain of buffer b:
\* the channel has not finished that chain since it was last loaded with it
InsideChainOf(c, b) == DDADR[c].buf = b

\* C34: a mask bit of the active buffer is cleared only for a channel that
\* has finished the active buffer's own chain since the channels were last
\* started, and a buffer is marked Done only when every channel in use has
\* finished that buffer's chain.
C34_DoneOnlyAfterOwnChains ==
  [][\A c \in InUse :
       /\ ClearsMaskBit(c) => ~InsideChainOf(c, active)
       /\ (DmaIrq(c) /\ Len(doneLog') > Len(doneLog)) =>
            \A e \in InUse : ~InsideChainOf(e, active)]_vars


\* capture is armed and the frame-boundary handler has not yet begun
ArmedWaiting == Armed /\ cirq = CIdle

\* C35: whenever capture is armed the capture queue is not empty, and the
\* frame-boundary handler, when it takes the end-of-frame interrupt, finds a
\* queued buffer and makes it the active one without an invalid access.
C35_StartFindsQueuedBuffer ==
  [][/\ ArmedWaiting' => capture' # <<>>
     /\ CameraIrqFirst =>
          /\ capture # <<>>
          /\ \E k \in DOMAIN capture : active' = capture[k]
          /\ oops' = oops]_vars

\* the end-of-frame interrupt is being taken after an overrun recovery, and
\* after a missed link was re-armed and a completion handled since
C35_Witness ==
  /\ cirq.pc = 1
  /\ capture # <<>>
  /\ active = Head(capture)
  /\ doneLog # <<>>
  /\ novr > 0


\* free_buffer has run for buffer b in this step: at the end of a failed
\* pxa_videobuf_prepare or in pxa_videobuf_release
FreeBufferStep(b) ==
  \/ \E failc \in Chans : PrepareNoMem(b, failc)
  \/ Release(b)

\* C36: on every path of pxa_videobuf_prepare followed by free_buffer each
\* descriptor array of the buffer is handed to dma_free_coherent exactly once:
\* the step that runs free_buffer releases no array that had been released
\* before, and leaves no array allocated.
C36_ArraysReleasedExactlyOnce ==
  [][\A b \in DOMAIN bufs : FreeBufferStep(b) =>
       /\ bufs'[b].refreed = bufs[b].refreed
       /\ NoArrays(bufs'[b])]_vars


\* the cursor pxa_videobuf_prepare passed to pxa_init_dma_channel for channel
\* c of buffer b: the start of the buffer for Y, else what the channel before
\* returned
StartCursor(b, c) ==
  IF c = 0 THEN [sg |-> 0, ofs |-> 0] ELSE bufs[b].cursor[c - 1]

\* the indices of the data descriptors the loop of pxa_init_dma_channel has
\* written in an array
DataWritten(cpu) ==
  {i \in DOMAIN cpu : cpu[i].written /\ ~cpu[i].endirq}

\* C37: for every built chain the count calculate_dma_sglen returns for the
\* chain's segment list, start cursor and target size is the number of data
\* descriptors pxa_init_dma_channel has written; they fill the indices below
\* the count of an array of count + 1 descriptors and cover the target size,
\* the terminal stop descriptor is at index count, and the size remaining at
\* the end of calculate_dma_sglen is 0.
C37_CountMatchesWrites ==
  \A b \in DOMAIN bufs : \A c \in BuiltChans(b) :
    LET dma == bufs[b].dmas[c]
        start == StartCursor(b, c)
        count == calculate_dma_sglen(sglist, start.sg, Len(sglist), start.ofs,
                                     Target(b, c))
    IN /\ SglenLoop(sglist, start.sg, Len(sglist), 0, start.ofs, Target(b, c)).size = 0
       /\ DOMAIN dma.sg_cpu = 0..count
       /\ DataWritten(dma.sg_cpu) = 0..(count - 1)
       /\ Cardinality(DataWritten(dma.sg_cpu)) = count
       /\ SumLens(dma.sg_cpu, count) >= Target(b, c)
       /\ dma.sg_cpu[count].written
       /\ dma.sg_cpu[count].endirq
       /\ dma.sg_cpu[count].ddadr = DDADR_STOP

\* the V chain of a 3-channel buffer that starts inside a segment, runs over
\* a segment boundary and was counted as two descriptors or more
C37_Witness ==
  \E b \in DOMAIN bufs :
    /\ channels = 3
    /\ 2 \in BuiltChans(b)
    /\ StartCursor(b, 2).ofs > 0
    /\ StartCursor(b, 2).sg > 0
    /\ Cardinality(DataWritten(bufs[b].dmas[2].sg_cpu)) >= 2
    /\ bufs[b].dmas[2].sg_cpu[0].dtadr = StartCursor(b, 2)

====
